---------------------------- MODULE Spec2Model ----------------------------
(***************************************************************************)
(* Model of ephemeris_lite.py: the angle utilities (ecl_lon, ang_diff),    *)
(* the event search find_events (built on skyfield's                       *)
(* almanac.find_discrete) and the driver main.                             *)
(*                                                                         *)
(* Units.  An angle is an integer number of units, UnitsPerDeg units to    *)
(* the degree.  Python computes on binary floating point; the model keeps  *)
(* the rounding: Fl rounds a result to MantissaBits significant bits, ties *)
(* to even, as every float operation does (with 53 bits in Python).  Every *)
(* multiple of GridUnit up to 720 degrees is exactly representable, so     *)
(* rounding only shows on finer angles.                                    *)
(* An instant is an integer number of ticks, TicksPerDay ticks to the day  *)
(* (a tick is 36 s); the timing precision of the search is one tick.       *)
(***************************************************************************)
EXTENDS Integers, Sequences, FiniteSets, TLC

VARIABLES pc,         \* position in the program
          a, b,       \* arguments of ang_diff (angle specification)
          d,          \* ang_diff(a, b)
          r,          \* (a + ang_diff(b, a)) % 360
          call,       \* find_events: its arguments
          step_days,  \* find_events: the attribute fn_sign.step_days
          jd,         \* find_discrete: the current vector of sample instants
          coarse,     \* find_discrete: the first vector of sample instants
          times,      \* find_discrete: the instants returned
          events,     \* find_events: the list returned
          run,        \* number of the current find_events call
          first,      \* the list the first call returned
          start_in, end_in,  \* main: the two datetimes entered
          t0, t1,     \* main: the window as Skyfield times
          refs,       \* main: the initial values <<ls0, lm0, D0>>
          k,          \* main: the search in progress (1 sun, 2 moon, 3 difference)
          ev,         \* main: the results <<ev_s, ev_m, ev_dm>>
          queried,    \* main: the ephemeris has been queried
          saved       \* main: the spreadsheet has been written

angVars == <<a, b, d, r>>
feVars == <<call, step_days, jd, coarse, times, events, run, first>>
mainVars == <<start_in, end_in, t0, t1, refs, k, ev, queried, saved>>
vars == <<pc, angVars, feVars, mainVars>>

----------------------------------------------------------------------------
(* Units and floating point *)

UnitsPerDeg == 9600
TicksPerDay == 2400
\* the grid of the angles the searches handle: what 1 degree a day advances
\* in a tick
GridUnit == UnitsPerDeg \div TicksPerDay
FullTurn == 360 * UnitsPerDeg
HalfTurn == 180 * UnitsPerDeg

MantissaBits == 21

Abs(x) == IF x < 0 THEN -x ELSE x

\* the spacing of the floats around magnitude m: the least power of two q
\* with m < 2^MantissaBits * q
Quantum(m) ==
    2 ^ (CHOOSE e \in 0..8 :
            /\ m < 2 ^ (MantissaBits + e)
            /\ e > 0 => m >= 2 ^ (MantissaBits + e - 1))

\* the magnitude m rounded to a multiple of q, ties to the even multiple
RoundMag(m, q) ==
    IF 2 * (m % q) < q THEN m - (m % q)
    ELSE IF 2 * (m % q) > q THEN m - (m % q) + q
    ELSE IF (m \div q) % 2 = 0 THEN m - (m % q)
    ELSE m - (m % q) + q

\* round to nearest representable value, ties to even
Fl(x) == IF x < 0 THEN -RoundMag(-x, Quantum(-x)) ELSE RoundMag(x, Quantum(x))

\* Python's x % w on floats, w > 0: fmod, then w is added to a negative
\* remainder (a rounded addition)
PyMod(x, w) ==
    IF x >= 0 THEN x % w
    ELSE IF (-x) % w = 0 THEN 0
    ELSE Fl(w - ((-x) % w))

----------------------------------------------------------------------------
(* ang_diff *)

\* a faulty variant: the final "- 180" forgotten
ang_diff_no_recentre(x, y) == PyMod(Fl(Fl(x - y) + HalfTurn), FullTurn)

\* ((a - b + 180) % 360) - 180
ang_diff(x, y) == Fl(PyMod(Fl(Fl(x - y) + HalfTurn), FullTurn) - HalfTurn)

\* the same expression in exact arithmetic: what ang_diff returns when no
\* intermediate result is rounded
ang_diff_exact(x, y) == ((x - y + HalfTurn) % FullTurn) - HalfTurn

\* the value of what has not been set: no call in progress, no attribute
NoCall == [none |-> TRUE]

----------------------------------------------------------------------------
(* The ephemeris and the functions built on it *)

\* The position oracle, (body - earth).at(t).ecliptic_latlon(epoch='date'):
\* the ephemeris is outside the program, so a body is a record
\* [lon0, rate, amp, seg]: a longitude of lon0 at instant 0 that advances by
\* rate units a tick, with amp units added during every second stretch of
\* seg ticks (amp = 0: a uniform motion)
Longitude(body, t) ==
    body.lon0 + body.rate * t
        + (IF body.amp # 0 /\ (t \div body.seg) % 2 = 1 THEN body.amp ELSE 0)

\* lon.degrees % 360
ecl_lon(body, t) == PyMod(Longitude(body, t), FullTurn)

\* The value functions main passes to find_events:
\*   kind "lon":  lambda t: ecl_lon(b1, t)
\*   kind "dm":   lambda t: (ecl_lon(b1, t) - ecl_lon(b2, t)) % 360
fn_val(f, t) ==
    IF f.kind = "lon" THEN ecl_lon(f.b1, t)
    ELSE PyMod(Fl(ecl_lon(f.b1, t) - ecl_lon(f.b2, t)), FullTurn)

\* a faulty variant: the sign convention ">= 0"
fn_sign_ge(f, t) == ang_diff(fn_val(f.val, t), f.ref) >= 0

\* The sign functions main builds: lambda t: ang_diff(<value>(t), <ref>) > 0
fn_sign(f, t) == ang_diff(fn_val(f.val, t), f.ref) > 0

----------------------------------------------------------------------------
(* almanac.find_discrete, as find_events calls it (epsilon and num at their *)
(* defaults)                                                                *)

\* the timing precision: find_discrete's epsilon is 1 ms; the model's
\* instants are whole ticks, and the precision is one tick
EPSILON == 1
\* find_discrete's num: the points a bracket is resampled on
NUM == 12

\* int(n / m): the quotient truncated toward zero (m # 0)
TruncDiv(n, m) ==
    IF (n >= 0) = (m > 0) THEN Abs(n) \div Abs(m) ELSE -(Abs(n) \div Abs(m))

\* sample_count = int((jd1 - jd0) / step_days) + 2, with step_days = sd.num / sd.den days
SampleCount(x0, x1, sd) == TruncDiv((x1 - x0) * sd.den, sd.num * TicksPerDay) + 2

\* linspace(jd0, jd1, n), on whole ticks
Linspace(x0, x1, n) ==
    IF n <= 0 THEN <<>>
    ELSE IF n = 1 THEN <<x0>>
    ELSE [i \in 1..n |-> x0 + ((i - 1) * (x1 - x0)) \div (n - 1)]

\* y = f(t) on the vector v
Signs(f, v) == [i \in 1..Len(v) |-> fn_sign(f, v[i])]

\* flatnonzero(diff(y)): the indices i with y[i] # y[i+1], in order
Flips(y) ==
    IF Len(y) < 2 THEN <<>>
    ELSE SelectSeq([i \in 1..(Len(y) - 1) |-> i], LAMBDA i : y[i] # y[i + 1])

Brackets(f, v) == Flips(Signs(f, v))

\* the loop of _find_discrete ends when it finds no bracket, or when the
\* first bracket is no wider than epsilon
Converged(v, ix) == ix = <<>> \/ v[ix[1] + 1] - v[ix[1]] <= EPSILON

\* the next vector: every bracket resampled on NUM points
Resample(v, ix) ==
    [p \in 1..(NUM * Len(ix)) |->
        v[ix[(p - 1) \div NUM + 1]]
          + (((p - 1) % NUM)
               * (v[ix[(p - 1) \div NUM + 1] + 1] - v[ix[(p - 1) \div NUM + 1]]))
              \div (NUM - 1)]

\* of the instants e, only the last of several that lie within 3 epsilon
\* of each other
LastOfClose(e) ==
    SelectSeq(e, LAMBDA t : \A n \in 1..(Len(e) - 1) :
                              e[n] = t => e[n + 1] - e[n] > 3 * EPSILON)

\* the instants returned: the brackets' ends, thinned
Ends(v, ix) == LastOfClose([n \in 1..Len(ix) |-> v[ix[n] + 1]])

----------------------------------------------------------------------------
(* find_events *)

\* a faulty variant: every instant find_discrete returns is kept
Filter_all(c, ts) == ts

\* the order of a sequence reversed
Reversed(s) == [n \in 1..Len(s) |-> s[Len(s) + 1 - n]]

\* a faulty variant: the kept instants are returned latest first
Filter_reversed(c, ts) ==
    Reversed(SelectSeq(ts, LAMBDA t : Abs(ang_diff(fn_val(c.fn_val, t), c.target)) < c.tol))

\* [t for t in times if abs(ang_diff(fn_val(t), target)) < tol]
Filter(c, ts) ==
    SelectSeq(ts, LAMBDA t : Abs(ang_diff(fn_val(c.fn_val, t), c.target)) < c.tol)

\* a faulty variant: the step is added to the attribute a previous call left
StepDays_accumulate(c, old) ==
    IF old = NoCall THEN [num |-> c.step_h, den |-> 24]
    ELSE [num |-> old.num + c.step_h, den |-> 24]

\* fn_sign.step_days = step_h / 24
StepDays(c, old) == [num |-> c.step_h, den |-> 24]

\* fn_sign.step_days = step_h / 24
FE_SetStep ==
    /\ pc = "fe_set_step"
    /\ step_days' = StepDays(call, step_days)
    /\ pc' = "fd_start"
    /\ UNCHANGED <<angVars, call, jd, coarse, times, events, run, first, mainVars>>

\* find_discrete up to its loop: the window is checked, the samples counted
\* and laid out.  It raises on an empty window (ValueError), on a zero step
\* (the division) and on a negative sample count (linspace).
FD_Start ==
    /\ pc = "fd_start"
    /\ IF call.t0 >= call.t1 \/ step_days.num = 0
          \/ SampleCount(call.t0, call.t1, step_days) < 0
       THEN /\ pc' = "fe_raised"
            /\ UNCHANGED <<jd, coarse>>
       ELSE /\ jd' = Linspace(call.t0, call.t1, SampleCount(call.t0, call.t1, step_days))
            /\ coarse' = jd'
            /\ pc' = "fd_loop"
    /\ UNCHANGED <<angVars, call, step_days, times, events, run, first, mainVars>>

\* one turn of the loop of _find_discrete, ix being the brackets of jd
FD_Turn(ix) ==
    /\ pc = "fd_loop"
    /\ IF Converged(jd, ix)
       THEN /\ times' = Ends(jd, ix)
            /\ pc' = "fe_filter"
            /\ UNCHANGED jd
       ELSE /\ jd' = Resample(jd, ix)
            /\ UNCHANGED <<times, pc>>
    /\ UNCHANGED <<angVars, call, step_days, coarse, events, run, first, mainVars>>

FD_Loop == FD_Turn(Brackets(call.fn_sign, jd))

\* the second screening and the return
FE_Filter ==
    /\ pc = "fe_filter"
    /\ events' = Filter(call, times)
    /\ pc' = "fe_returned"
    /\ UNCHANGED <<angVars, call, step_days, jd, coarse, times, run, first, mainVars>>

----------------------------------------------------------------------------
(* Specification Spec: find_events called twice on the same arguments, the  *)
(* arguments drawn from uniform and oscillating signals, references on and  *)
(* off the target, steps and tolerances of every sign, and windows that are *)
(* empty or not                                                             *)

ShortWindow == 200
LongWindow == 420
SegTicks == 30

Tol001 == UnitsPerDeg \div 100

\* uniform motions that pass the reference, pass the point opposite to it,
\* or start on it; slow (2 grid units a tick) and fast (31 a tick, more
\* than the tolerance of 0.01 degree in one tick)
UniformBodies(ref) ==
    {[lon0 |-> (ref + off) % FullTurn, rate |-> rt * GridUnit, amp |-> 0, seg |-> 1] :
        off \in {-100 * GridUnit, HalfTurn - 100 * GridUnit, 0}, rt \in {2, 31}}

\* signals that step between the reference and two grid units above it
OscillatingBodies(ref) ==
    {[lon0 |-> ref, rate |-> 0, amp |-> 2 * GridUnit, seg |-> sg] :
        sg \in {SegTicks, 3 * SegTicks + 10}}

\* a signal that jumps every SegTicks between a uniform motion through the
\* reference and the point opposite to it
JumpingBodies(ref) ==
    {[lon0 |-> (ref - 100 * GridUnit) % FullTurn, rate |-> 2 * GridUnit,
      amp |-> HalfTurn, seg |-> SegTicks]}

Calls ==
    {[fn_sign |-> [val |-> [kind |-> "lon", b1 |-> body, b2 |-> body], ref |-> ref],
      fn_val |-> [kind |-> "lon", b1 |-> body, b2 |-> body],
      target |-> (ref + toff) % FullTurn,
      t0 |-> 0, t1 |-> w, step_h |-> sh, tol |-> tl] :
        ref \in {0}, body \in UniformBodies(0) \cup OscillatingBodies(0) \cup JumpingBodies(0),
        toff \in {0, 100 * GridUnit},
        w \in {0, ShortWindow, LongWindow},
        sh \in {-1, 0, 1, 3},
        tl \in {-Tol001, 0, Tol001, 20 * Tol001}}

Init ==
    /\ pc = "fe_set_step"
    /\ call \in Calls
    /\ step_days = NoCall /\ jd = <<>> /\ coarse = <<>>
    /\ times = <<>> /\ events = <<>> /\ run = 1 /\ first = NoCall
    /\ a = 0 /\ b = 0 /\ d = 0 /\ r = 0
    /\ start_in = NoCall /\ end_in = NoCall /\ t0 = 0 /\ t1 = 0
    /\ refs = <<>> /\ k = 0 /\ ev = <<>> /\ queried = FALSE /\ saved = FALSE

\* what a call of find_events ended with
Outcome == [raised |-> pc = "fe_raised", events |-> events]

\* the same call once more: the function objects are the same, and
\* fn_sign keeps the attribute the first call set
FE_Again ==
    /\ pc \in {"fe_returned", "fe_raised"}
    /\ run = 1
    /\ first' = Outcome
    /\ run' = 2
    /\ jd' = <<>> /\ coarse' = <<>> /\ times' = <<>> /\ events' = <<>>
    /\ pc' = "fe_set_step"
    /\ UNCHANGED <<angVars, call, step_days, mainVars>>

Next == FE_SetStep \/ FD_Start \/ FD_Loop \/ FE_Filter \/ FE_Again

Spec == Init /\ [][Next]_vars

Range(s) == {s[n] : n \in 1..Len(s)}

\* the value function is within the tolerance of the target at instant t
NearTarget(c, t) == Abs(ang_diff(fn_val(c.fn_val, t), c.target)) < c.tol

\* C3: every instant find_events returns has |ang_diff(fn_val(t), target)| < tol,
\* and an instant of find_discrete that fails the test is not returned, the
\* call returning all the same
C3_ReturnedWithinTol ==
    pc = "fe_returned" =>
        /\ \A t \in Range(events) : NearTarget(call, t)
        /\ \A t \in Range(times) : ~NearTarget(call, t) => t \notin Range(events)

\* a call that returns an instant while a sign flip at the point opposite
\* to the target (the branch cut) is left out
C3_Witness ==
    /\ pc = "fe_returned"
    /\ events # <<>>
    /\ \E t \in Range(times) :
          /\ t \notin Range(events)
          /\ Abs(ang_diff(fn_val(call.fn_val, t), call.target)) > HalfTurn - UnitsPerDeg

\* the number of instants t in lo..hi-1 with a sign change between t and t+1
SignChanges(f, lo, hi) ==
    Cardinality({t \in lo..(hi - 1) : fn_sign(f, t) # fn_sign(f, t + 1)})

StrictlyApart(s, gap) == \A n \in 1..(Len(s) - 1) : s[n + 1] - s[n] > gap

C6_NonPositiveRaises ==
    (call.step_h <= 0 \/ call.tol <= 0) => pc # "fe_returned"

\* C8: the second of two calls of find_events on the same arguments ends as
\* the first did: with the same list, or raising as the first did
C8_SecondCallSame ==
    (run = 2 /\ pc \in {"fe_returned", "fe_raised"}) => Outcome = first

\* a second call that has returned instants, with the attribute the first
\* call wrote still on the sign function
C8_Witness ==
    /\ run = 2 /\ pc = "fe_returned"
    /\ step_days # NoCall
    /\ Len(events) >= 2
    /\ Len(times) > Len(events)

----------------------------------------------------------------------------
(* Specification SpecLinear: find_events called as main calls it (the       *)
(* target is the value at t0, the sign function is ang_diff(value, target)  *)
(* > 0, the tolerance 0.01 degree) on a longitude that increases uniformly, *)
(* over windows of several months sampled every day or every two days       *)

Day == TicksPerDay
MaxDays == 400

LinearBodies ==
    {[lon0 |-> l0 * GridUnit, rate |-> rt * GridUnit, amp |-> 0, seg |-> 1] :
        l0 \in {0, 123456, 600000}, rt \in {1, 8}}

\* find_events(f, v, v(t0), t0, t1, step_h, 0.01) with f = ang_diff(v(t), v(t0)) > 0
LinearCall(body, x0, x1, sh) ==
    LET v == [kind |-> "lon", b1 |-> body, b2 |-> body]
        target == fn_val(v, x0)
    IN [fn_sign |-> [val |-> v, ref |-> target], fn_val |-> v, target |-> target,
        t0 |-> x0, t1 |-> x1, step_h |-> sh, tol |-> Tol001]

LinearCalls ==
    {LinearCall(body, 0, w * Day, sh) :
        body \in LinearBodies, w \in {90, 200, MaxDays}, sh \in {24, 48}}

\* the scenario of the specification: 1 degree a day from 0 degrees at t0,
\* 400 days sampled every day
ScenarioC4 ==
    LinearCall([lon0 |-> 0, rate |-> GridUnit, amp |-> 0, seg |-> 1], 0, 400 * Day, 24)

InitLinear ==
    /\ pc = "fe_set_step"
    /\ call \in LinearCalls \cup {ScenarioC4}
    /\ step_days = NoCall /\ jd = <<>> /\ coarse = <<>>
    /\ times = <<>> /\ events = <<>> /\ run = 1 /\ first = NoCall
    /\ a = 0 /\ b = 0 /\ d = 0 /\ r = 0
    /\ start_in = NoCall /\ end_in = NoCall /\ t0 = 0 /\ t1 = 0
    /\ refs = <<>> /\ k = 0 /\ ev = <<>> /\ queried = FALSE /\ saved = FALSE

NextLinear == FE_SetStep \/ FD_Start \/ FD_Loop \/ FE_Filter

SpecLinear == InitLinear /\ [][NextLinear]_vars

\* C4: in the scenario the search returns exactly one instant, at day 360
C4_OneCrossingAtDay360 ==
    (call = ScenarioC4 /\ pc = "fe_returned") =>
        /\ Len(events) = 1
        /\ Abs(events[1] - 360 * Day) <= EPSILON

\* the signed difference between the value at instant t and the target
Diff(c, t) == ang_diff(fn_val(c.fn_val, t), c.target)

\* sample i of the first vector reads the target exactly, the sample before
\* it lies below the target and the sample after it above
ExactAt(c, v, i) ==
    /\ 1 < i /\ i < Len(v)
    /\ Diff(c, v[i]) = 0
    /\ Diff(c, v[i - 1]) < 0
    /\ Diff(c, v[i + 1]) > 0

\* C9: a difference of exactly 0 is on the "false" side of the sign function,
\* and where a sample reads the target exactly between a sample below and a
\* sample above it, the search returns exactly one instant between those
\* two samples: the one bracketed after the exact sample
C9_ExactSampleOneCrossing ==
    pc = "fe_returned" =>
        \A i \in 1..Len(coarse) :
            ExactAt(call, coarse, i) =>
                /\ ~fn_sign(call.fn_sign, coarse[i])
                /\ Cardinality({t \in Range(events) :
                                   coarse[i - 1] < t /\ t <= coarse[i + 1]}) = 1
                /\ \E t \in Range(events) : coarse[i] < t /\ t <= coarse[i + 1]

\* a search that has returned, one of whose samples read the target exactly
C9_Witness ==
    /\ pc = "fe_returned"
    /\ \E i \in 1..Len(coarse) : ExactAt(call, coarse, i)

----------------------------------------------------------------------------
(* Specification SpecMain: main, from the two datetimes entered to the      *)
(* spreadsheet                                                              *)

Hour == TicksPerDay \div 24

\* CST = timezone(timedelta(hours=8))
CST == 8 * Hour

\* the ephemeris: the sun advances one grid unit a tick (1 degree a day) and
\* crosses 360 degrees 10 hours after instant 0; the moon advances 13
sun == [lon0 |-> FullTurn - 1000 * GridUnit, rate |-> GridUnit, amp |-> 0, seg |-> 1]
moon == [lon0 |-> 100 * UnitsPerDeg, rate |-> 13 * GridUnit, amp |-> 0, seg |-> 1]

MaxHours == 30

\* a datetime entered: the wall clock in ticks, and its UTC offset when the
\* text carried one
Datetimes ==
    {[wall |-> h * Hour, aware |-> FALSE, utcoff |-> 0] : h \in {8, 11, 14, 8 + MaxHours}}
    \cup {[wall |-> h * Hour, aware |-> TRUE, utcoff |-> off] :
            h \in {8, 14}, off \in {0, CST}}

\* if x.tzinfo is None: x = x.tz_localize(CST)
Localize(x) == IF x.aware THEN x ELSE [x EXCEPT !.aware = TRUE, !.utcoff = CST]

\* the instant of an aware datetime
Instant(x) == x.wall - x.utcoff

\* a faulty variant: only a start later than the end is refused
WindowRefused_gt(s, e) == Instant(s) > Instant(e)

\* if start_in >= end_in: sys.exit(...)
WindowRefused(s, e) == Instant(s) >= Instant(e)

\* a faulty variant: the initial difference taken as sun minus moon
InitialValues_swapped(x0) ==
    << ecl_lon(sun, x0), ecl_lon(moon, x0),
       PyMod(Fl(ecl_lon(sun, x0) - ecl_lon(moon, x0)), FullTurn) >>

\* ls0 = ecl_lon(sun, t0); lm0 = ecl_lon(moon, t0); D0 = (lm0 - ls0) % 360
InitialValues(x0) ==
    << ecl_lon(sun, x0), ecl_lon(moon, x0),
       PyMod(Fl(ecl_lon(moon, x0) - ecl_lon(sun, x0)), FullTurn) >>

\* the value function of search n: the sun's longitude, the moon's, their
\* difference
MainVal(n) ==
    IF n = 1 THEN [kind |-> "lon", b1 |-> sun, b2 |-> sun]
    ELSE IF n = 2 THEN [kind |-> "lon", b1 |-> moon, b2 |-> moon]
    ELSE [kind |-> "dm", b1 |-> moon, b2 |-> sun]

\* find_events(f, v, ref, t0, t1) for search n, with f = ang_diff(v(t), ref) > 0
\* and the defaults step_h = 1, tol = 0.01
MainCall(n, rf, x0, x1) ==
    [fn_sign |-> [val |-> MainVal(n), ref |-> rf[n]], fn_val |-> MainVal(n),
     target |-> rf[n], t0 |-> x0, t1 |-> x1, step_h |-> 1, tol |-> Tol001]

InitMain ==
    /\ pc = "main_input"
    /\ start_in \in Datetimes /\ end_in \in Datetimes
    /\ t0 = 0 /\ t1 = 0 /\ refs = <<>> /\ k = 0 /\ ev = <<>>
    /\ queried = FALSE /\ saved = FALSE
    /\ call = NoCall /\ step_days = NoCall /\ jd = <<>> /\ coarse = <<>>
    /\ times = <<>> /\ events = <<>> /\ run = 1 /\ first = NoCall
    /\ a = 0 /\ b = 0 /\ d = 0 /\ r = 0

\* the datetimes without a time zone are taken as Beijing time
M_Localize ==
    /\ pc = "main_input"
    /\ start_in' = Localize(start_in)
    /\ end_in' = Localize(end_in)
    /\ pc' = "main_check"
    /\ UNCHANGED <<angVars, feVars, t0, t1, refs, k, ev, queried, saved>>

\* the window is checked; main exits on a start that is not before the end
M_Check ==
    /\ pc = "main_check"
    /\ pc' = IF WindowRefused(start_in, end_in) THEN "main_exited" ELSE "main_convert"
    /\ UNCHANGED <<angVars, feVars, mainVars>>

\* t0, t1 = ts.from_datetime(start_in), ts.from_datetime(end_in)
M_Convert ==
    /\ pc = "main_convert"
    /\ t0' = Instant(start_in)
    /\ t1' = Instant(end_in)
    /\ pc' = "main_initial"
    /\ UNCHANGED <<angVars, feVars, start_in, end_in, refs, k, ev, queried, saved>>

\* the initial values are read from the ephemeris
M_Initial ==
    /\ pc = "main_initial"
    /\ refs' = InitialValues(t0)
    /\ queried' = TRUE
    /\ k' = 1
    /\ pc' = "main_call"
    /\ UNCHANGED <<angVars, feVars, start_in, end_in, t0, t1, ev, saved>>

\* search k is started, on a sign function built for it
M_Call ==
    /\ pc = "main_call"
    /\ call' = MainCall(k, refs, t0, t1)
    /\ step_days' = NoCall
    /\ jd' = <<>> /\ coarse' = <<>> /\ times' = <<>> /\ events' = <<>>
    /\ pc' = "fe_set_step"
    /\ UNCHANGED <<angVars, run, first, mainVars>>

\* search k has returned
M_Return ==
    /\ pc = "fe_returned"
    /\ ev' = Append(ev, events)
    /\ IF k < 3 THEN k' = k + 1 /\ pc' = "main_call"
                ELSE k' = k /\ pc' = "main_save"
    /\ UNCHANGED <<angVars, feVars, start_in, end_in, t0, t1, refs, queried, saved>>

\* the rows are collected and written to the spreadsheet
M_Save ==
    /\ pc = "main_save"
    /\ saved' = TRUE
    /\ pc' = "main_done"
    /\ UNCHANGED <<angVars, feVars, start_in, end_in, t0, t1, refs, k, ev, queried>>

NextMain ==
    \/ M_Localize \/ M_Check \/ M_Convert \/ M_Initial \/ M_Call
    \/ FE_SetStep \/ FD_Start \/ FD_Loop \/ FE_Filter
    \/ M_Return \/ M_Save

SpecMain == InitMain /\ [][NextMain]_vars

\* C7: on a window whose start is not before its end, main stops before the
\* ephemeris is queried, before any search is started and without writing
\* the spreadsheet
C7_RefusedWindowStops ==
    Instant(Localize(start_in)) >= Instant(Localize(end_in)) =>
        /\ pc \in {"main_input", "main_check", "main_exited"}
        /\ ~queried /\ call = NoCall /\ ev = <<>> /\ ~saved

\* main has exited on a window whose start and end are the same instant
C7_Witness ==
    /\ pc = "main_exited"
    /\ Instant(start_in) = Instant(end_in)

\* C10: in each search of main the target is the value function at t0, so
\* the signed difference at t0 is 0 and the sign function is false on the
\* first sample; the values increasing, the first bracket of the search is
\* the first sampling interval
C10_TargetIsValueAtStart ==
    call # NoCall =>
        /\ call.target = fn_val(call.fn_val, call.t0)
        /\ ang_diff(fn_val(call.fn_val, call.t0), call.target) = 0
        /\ coarse # <<>> =>
              /\ coarse[1] = call.t0
              /\ ~fn_sign(call.fn_sign, coarse[1])
              /\ Brackets(call.fn_sign, coarse) # <<>>
              /\ Brackets(call.fn_sign, coarse)[1] = 1

\* the third search (the difference of the longitudes) has laid out its
\* samples
C10_Witness ==
    /\ k = 3 /\ pc = "fd_loop" /\ Len(coarse) > 2 /\ jd = coarse
    /\ call.target = refs[3]
    /\ ~fn_sign(call.fn_sign, coarse[1]) /\ fn_sign(call.fn_sign, coarse[2])

----------------------------------------------------------------------------
(* The angle specification: ang_diff on normalized angles *)

AngStep == 30 * UnitsPerDeg
MaxFine == 3

\* normalized angles: the multiples of 30 degrees, each with a few
\* neighbours finer than the grid, kept when they are floats
AngleInputs ==
    {x \in {i * AngStep + f : i \in 0..(FullTurn \div AngStep - 1), f \in 0..MaxFine} :
        x < FullTurn /\ Fl(x) = x}

InitAng ==
    /\ pc = "ang_diff"
    /\ a \in AngleInputs /\ b \in AngleInputs
    /\ d = 0 /\ r = 0
    /\ call = NoCall /\ step_days = NoCall /\ jd = <<>> /\ coarse = <<>>
    /\ times = <<>> /\ events = <<>> /\ run = 0 /\ first = <<>>
    /\ start_in = NoCall /\ end_in = NoCall /\ t0 = 0 /\ t1 = 0
    /\ refs = <<>> /\ k = 0 /\ ev = <<>> /\ queried = FALSE /\ saved = FALSE

\* d = ang_diff(a, b)
AngDiff ==
    /\ pc = "ang_diff"
    /\ d' = ang_diff(a, b)
    /\ pc' = "round_trip"
    /\ UNCHANGED <<a, b, r, feVars, mainVars>>

\* r = (a + ang_diff(b, a)) % 360
RoundTrip ==
    /\ pc = "round_trip"
    /\ r' = PyMod(Fl(a + ang_diff(b, a)), FullTurn)
    /\ pc' = "ang_done"
    /\ UNCHANGED <<a, b, d, feVars, mainVars>>

NextAng == AngDiff \/ RoundTrip

SpecAng == InitAng /\ [][NextAng]_vars

\* C1: for normalized a and b, ang_diff(a, b) lies in (-180, 180], and is
\* +180 when a and b are exactly opposite
C1_RangeHalfOpenAbove ==
    pc # "ang_diff" =>
        /\ -HalfTurn < d /\ d <= HalfTurn
        /\ (Abs(a - b) = HalfTurn => d = HalfTurn)

\* C2: for normalized a and b, (a + ang_diff(b, a)) % 360 = b
C2_RoundTripExact == pc = "ang_done" => r = b

\* no operation of ang_diff(x, y), nor the sum z + ang_diff(x, y), is rounded
NoRounding(x, y, z) ==
    /\ Fl(x - y) = x - y
    /\ Fl(x - y + HalfTurn) = x - y + HalfTurn
    /\ ang_diff(x, y) = ang_diff_exact(x, y)
    /\ Fl(z + ang_diff_exact(x, y)) = z + ang_diff_exact(x, y)

\* the distance on the circle between two angles, in exact arithmetic
CircDist(x, y) ==
    IF (x - y) % FullTurn <= HalfTurn THEN (x - y) % FullTurn
    ELSE FullTurn - ((x - y) % FullTurn)

\* the rounding error a round trip can accumulate: two roundings at the
\* magnitude of 540 degrees
RoundTripSlack == 2 * Quantum(FullTurn + HalfTurn)

\* C2 (amended): (a + ang_diff(b, a)) % 360 is b whenever no operation is
\* rounded, and is within rounding error of b on the circle otherwise
C2_RoundTripUpToRounding ==
    pc = "ang_done" =>
        /\ (NoRounding(b, a, a) => r = b)
        /\ CircDist(r, b) <= RoundTripSlack

\* a round trip on angles between which no operation is rounded and whose
\* difference wraps around 360 degrees (b < a, more than 180 degrees apart)
C2_Witness ==
    /\ pc = "ang_done" /\ b < a /\ a - b > HalfTurn /\ NoRounding(b, a, a) /\ r = b

====
